---- MODULE Spec2Model ----
(***************************************************************************)
(* Model of shapeit's validation engine, src/src/validation/validate.ts:   *)
(* validate(input, ...rules), createAsserter and applyRulesRecursively,    *)
(* run on a single-threaded event loop.  Two validate calls can be in      *)
(* flight at once.  A leaf rule is a script of assert / await / throw      *)
(* steps; a suspended rule resumes in any order relative to the others.    *)
(***************************************************************************)
EXTENDS Integers, Sequences, FiniteSets, TLC

\* ------------------------------------------------------------------ bounds
MaxLen == 2        \* longest input array
MaxArgs == 2       \* most rule sets passed to one validate call

\* ------------------------------------------------------------------ values
\* A JavaScript value: t is its kind, n its number, f its own properties
\* (a sequence of elements for an array, a key -> value function for an object).
NoProps == <<>>
Num(n) == [t |-> "num", n |-> n, f |-> NoProps]
Null == [t |-> "null", n |-> 0, f |-> NoProps]
FnVal == [t |-> "fn", n |-> 0, f |-> NoProps]
Undefined == [t |-> "undefined", n |-> 0, f |-> NoProps]
Arr(s) == [t |-> "arr", n |-> 0, f |-> s]
Obj(f) == [t |-> "obj", n |-> 0, f |-> f]

Digits == <<"0", "1", "2", "3", "4", "5", "6", "7", "8", "9">>

\* `${i}`: the decimal string of an array index.
RECURSIVE StrOfNat(_)
StrOfNat(i) ==
  IF i < 10 THEN Digits[i + 1]
  ELSE StrOfNat(i \div 10) \o Digits[(i % 10) + 1]

\* Array.isArray(v)
IsArray(v) == v.t = "arr"

\* typeof v === 'object' && v !== null
IsObject(v) == v.t \in {"arr", "obj"}

\* The keys a value owns: Object.keys plus an array's length.
OwnKeys(v) ==
  CASE v.t = "obj" -> DOMAIN v.f
    [] v.t = "arr" -> {StrOfNat(i - 1) : i \in 1..Len(v.f)} \cup {"length"}
    [] OTHER -> {}

\* The keys an object or array inherits from its prototype.
ProtoKeys(v) == IF IsObject(v) THEN {"toString"} ELSE {}

\* key in v
HasKey(v, key) == key \in OwnKeys(v) \cup ProtoKeys(v)

\* v[key]
Get(v, key) ==
  CASE v.t = "obj" /\ key \in DOMAIN v.f -> v.f[key]
    [] v.t = "arr" /\ key = "length" -> Num(Len(v.f))
    [] v.t = "arr" /\ key \in OwnKeys(v) ->
         v.f[CHOOSE i \in 1..Len(v.f) : StrOfNat(i - 1) = key]
    [] key \in ProtoKeys(v) -> FnVal
    [] OTHER -> Undefined

\* ------------------------------------------------------------------ rules
\* A step of a leaf rule's body.
AssertStep(pred, msg) == [op |-> "assert", pred |-> pred, msg |-> msg]
AwaitStep == [op |-> "await", pred |-> "-", msg |-> "-"]
ThrowStep == [op |-> "throw", pred |-> "-", msg |-> "-"]
\* The rule hands the rest of its body to work it does not wait for (a timer,
\* a promise it does not await) and returns.
DetachStep == [op |-> "detach", pred |-> "-", msg |-> "-"]

\* The condition a rule passes to assert, computed from the rule's input.
Cond(pred, v) ==
  CASE pred = "pos" -> v.t = "num" /\ v.n > 0
    [] pred = "always" -> TRUE
    [] OTHER -> FALSE

\* A rule set: a leaf rule (k = "fn": its name, the assert it calls, its
\* body), an array of rule sets (k = "arr": items) or an object of rule sets
\* (k = "obj": items are <<key, rule set>> pairs in Object.keys order).
Fn(name, script) ==
  [k |-> "fn", name |-> name, style |-> "param", script |-> script, items |-> <<>>]
RArr(items) ==
  [k |-> "arr", name |-> "-", style |-> "-", script |-> <<>>, items |-> items]
RObj(pairs) ==
  [k |-> "obj", name |-> "-", style |-> "-", script |-> <<>>, items |-> pairs]

\* '$each' in rules
HasEach(rules) == \E i \in 1..Len(rules.items) : rules.items[i][1] = "$each"

\* rules.$each
EachOf(rules) ==
  rules.items[CHOOSE i \in 1..Len(rules.items) : rules.items[i][1] = "$each"][2]


\* ------------------------------------------------------------ the dispatcher
\* One call of applyRulesRecursively: a leaf task (the rule is a function) or
\* a Promise.all over its child tasks.  parent is the index of the calling
\* task in the call's task list (0 for validate itself).
Task(kind, parent, path, rules, value) ==
  [kind |-> kind, parent |-> parent, path |-> path, rules |-> rules, value |-> value]

Child(value, rules, path) == [value |-> value, rules |-> rules, path |-> path]

\* ArrayChildren with the rule sets taken from the last to the first.
ArrayChildrenReversed(input, rules, path) ==
  [i \in 1..Len(rules.items) |->
     Child(input, rules.items[Len(rules.items) + 1 - i], path)]

\* rules.map(rule => applyRulesRecursively(input, rule, path, errors))
ArrayChildren(input, rules, path) ==
  [i \in 1..Len(rules.items) |-> Child(input, rules.items[i], path)]

\* EachChildren with the elements numbered from 1.
EachChildrenFromOne(input, rules, path) ==
  [i \in 1..Len(input.f) |->
     Child(input.f[i], EachOf(rules), path \o "." \o StrOfNat(i))]

\* input.map((v, i) => applyRulesRecursively(v, rules.$each, `${path}.${i}`, errors))
EachChildren(input, rules, path) ==
  [i \in 1..Len(input.f) |->
     Child(input.f[i], EachOf(rules), path \o "." \o StrOfNat(i - 1))]

\* The keys of the rule set, unfiltered.
KeyFilterNone(input, pairs) == pairs

\* keys.filter(key => key in input)
KeyFilter(input, pairs) == SelectSeq(pairs, LAMBDA p : HasKey(input, p[1]))

\* keys.filter(...).map(key => applyRulesRecursively(input[key], rules[key], `${path}.${key}`, errors))
ObjectChildren(input, rules, path) ==
  LET kept == KeyFilter(input, rules.items)
  IN [i \in 1..Len(kept) |->
        Child(Get(input, kept[i][1]), kept[i][2], path \o "." \o kept[i][1])]

\* The promises of a branching call, in the order they are started.
Children(input, rules, path) ==
  IF rules.k = "arr" THEN ArrayChildren(input, rules, path)
  ELSE IF IsArray(input) /\ HasEach(rules) THEN EachChildren(input, rules, path)
  ELSE IF IsObject(input) THEN ObjectChildren(input, rules, path)
  ELSE <<>>

\* The tasks applyRulesRecursively starts, in the order it starts them; the
\* first task gets index base + 1.
RECURSIVE applyRulesRecursively(_, _, _, _, _)
RECURSIVE StartChildren(_, _, _)
applyRulesRecursively(input, rules, path, parent, base) ==
  IF rules.k = "fn"
  THEN <<Task("leaf", parent, path, rules, input)>>
  ELSE <<Task("all", parent, path, rules, input)>>
         \o StartChildren(Children(input, rules, path), base + 1, base + 1)

\* StartChildren as a loop outside an async function would run: a child
\* whose rule throws before it first awaits ends the loop, and the children
\* listed after it are never started.
RECURSIVE StartChildrenAbortOnThrow(_, _, _)
StartChildrenAbortOnThrow(kids, parent, base) ==
  IF kids = <<>> THEN <<>>
  ELSE LET first == applyRulesRecursively(kids[1].value, kids[1].rules,
                                          kids[1].path, parent, base)
           script == kids[1].rules.script
           threw == \E i \in 1..Len(script) :
                      /\ script[i].op = "throw"
                      /\ \A j \in 1..(i - 1) : script[j].op = "assert"
       IN IF threw THEN first
          ELSE first \o StartChildrenAbortOnThrow(Tail(kids), parent, base + Len(first))

StartChildren(kids, parent, base) ==
  IF kids = <<>> THEN <<>>
  ELSE LET first == applyRulesRecursively(kids[1].value, kids[1].rules,
                                          kids[1].path, parent, base)
       IN first \o StartChildren(Tail(kids), parent, base + Len(first))

\* ------------------------------------------------------------ the asserter
\* The asserter with the test of cond dropped: every call records.
AsserterAssertAlways(errs, cond, msg) == Append(errs, msg)

\* createAsserter's assert: if (!cond) errors.push(msg)
AsserterAssert(errs, cond, msg) == IF ~cond THEN Append(errs, msg) ELSE errs

\* The free-standing assert exported beside validate: it records in the
\* accumulator of the rule invocation that calls it.
FreeAssert(errs, cond, msg) == IF ~cond THEN Append(errs, msg) ELSE errs

CallAssert(style, errs, cond, msg) ==
  IF style = "free" THEN FreeAssert(errs, cond, msg)
  ELSE AsserterAssert(errs, cond, msg)

\* A leaf rule's body from step pc until it suspends, returns or throws.
RECURSIVE RunRule(_, _, _, _)
RunRule(rule, value, pc, errs) ==
  IF pc > Len(rule.script) THEN [pc |-> pc, errs |-> errs, out |-> "end"]
  ELSE LET s == rule.script[pc]
       IN CASE s.op = "await" -> [pc |-> pc + 1, errs |-> errs, out |-> "await"]
            [] s.op = "throw" -> [pc |-> pc, errs |-> errs, out |-> "throw"]
            [] s.op = "detach" -> [pc |-> pc + 1, errs |-> errs, out |-> "end"]
            [] OTHER ->
                 RunRule(rule, value, pc + 1,
                         CallAssert(rule.style, errs, Cond(s.pred, value), s.msg))

\* The state of a leaf task after its rule ran up to `run`.
LeafState(run) ==
  CASE run.out = "await" -> "running"
    [] run.out = "end" -> "settled"
    [] OTHER -> "rejected"

\* ------------------------------------------------------------ the error sink
\* errors: Record<string, string[]>, as <<path, messages>> pairs in key order.
HasPath(errors, path) == \E i \in 1..Len(errors) : errors[i][1] = path

IndexOfPath(errors, path) == CHOOSE i \in 1..Len(errors) : errors[i][1] = path

MessagesAt(errors, path) ==
  IF HasPath(errors, path) THEN errors[IndexOfPath(errors, path)][2] ELSE <<>>

\* PushErrors without the test of assertionErrors.length: a rule that
\* recorded nothing still creates the list of its path.
PushErrorsUnguarded(errors, path, assertionErrors) ==
  IF HasPath(errors, path)
  THEN [errors EXCEPT ![IndexOfPath(errors, path)] = <<path, @[2] \o assertionErrors>>]
  ELSE Append(errors, <<path, assertionErrors>>)

\* PushErrors putting the messages before those the path already holds.
PushErrorsPrepend(errors, path, assertionErrors) ==
  IF Len(assertionErrors) = 0 THEN errors
  ELSE IF HasPath(errors, path)
  THEN [errors EXCEPT ![IndexOfPath(errors, path)] = <<path, assertionErrors \o @[2]>>]
  ELSE Append(errors, <<path, assertionErrors>>)

\* PushErrors assigning the list of the path instead of appending to it.
PushErrorsReplace(errors, path, assertionErrors) ==
  IF Len(assertionErrors) = 0 THEN errors
  ELSE IF HasPath(errors, path)
       THEN [errors EXCEPT ![IndexOfPath(errors, path)] = <<path, assertionErrors>>]
       ELSE Append(errors, <<path, assertionErrors>>)

\* if (assertionErrors.length) (errors[path] ||= []).push(...assertionErrors)
PushErrors(errors, path, assertionErrors) ==
  IF Len(assertionErrors) = 0 THEN errors
  ELSE IF HasPath(errors, path)
       THEN [errors EXCEPT ![IndexOfPath(errors, path)] =
               <<path, @[2] \o assertionErrors>>]
       ELSE Append(errors, <<path, assertionErrors>>)

\* The normalisation that keeps the first rule set only.
NormalizeRulesFirst(args) == args[1]

\* const rulesSet = rules.length > 1 ? rules : rules[0]
NormalizeRules(args) == IF Len(args) > 1 THEN RArr(args) ELSE args[1]

\* Object.keys(errors).length ? {valid: false, errors} : {valid: true, errors: null}
MakeResult(errors) ==
  IF Len(errors) # 0
  THEN [valid |-> FALSE, null |-> FALSE, errors |-> errors]
  ELSE [valid |-> TRUE, null |-> TRUE, errors |-> <<>>]

NoResult == [valid |-> FALSE, null |-> FALSE, errors |-> <<>>]

\* result.errors.all: errors is the record of the paths, so the read finds a
\* property only if a path is named all.
ErrorsAll(errs) == [defined |-> HasPath(errs, "all"), value |-> MessagesAt(errs, "all")]


\* ------------------------------------------------------------ the inputs
\* Leaf rules.  rPos is the rule of the test suite, (n, assert) => assert(n > 0, msg).
rPos == Fn("rPos", <<AssertStep("pos", "must be positive")>>)
rMany == Fn("rMany", <<AssertStep("never", "e1"), AssertStep("always", "e2"),
                       AssertStep("pos", "e3")>>)
rSlow == Fn("rSlow", <<AwaitStep, AssertStep("pos", "e4")>>)
rMixed == Fn("rMixed", <<AssertStep("never", "e5"), AwaitStep,
                         AssertStep("never", "e6")>>)
rThrow == Fn("rThrow", <<AssertStep("never", "e7"), ThrowStep>>)
rReject == Fn("rReject", <<AwaitStep, ThrowStep>>)

\* Rules that call assert from work they started and did not wait for.
rLate ==
  Fn("rLate", <<AssertStep("pos", "e8"), DetachStep, AssertStep("never", "late")>>)
rLateSlow ==
  Fn("rLateSlow", <<AwaitStep, AssertStep("never", "e9"), DetachStep,
                    AssertStep("pos", "late pos"), AssertStep("never", "late 2")>>)

LeafRules == {rPos, rMany, rSlow, rMixed, rThrow, rReject}

ArrayRules ==
  { RArr(<<rPos, rMany>>), RArr(<<rSlow, rMixed>>), RArr(<<rMixed, rReject>>),
    RArr(<<rThrow, rSlow>>), RArr(<<>>),
    RArr(<<RArr(<<rMany, rPos>>), rMany>>) }

EachRules ==
  { RObj(<<<<"$each", rPos>>>>), RObj(<<<<"$each", rMixed>>>>),
    RObj(<<<<"$each", rPos>>, <<"a", rMany>>>>) }

KeyRules ==
  { RObj(<<<<"a", rPos>>>>), RObj(<<<<"a", rSlow>>, <<"b", rMixed>>>>),
    RObj(<<<<"b", rMany>>, <<"a", rReject>>>>),
    RObj(<<<<"c", rMany>>, <<"a", rPos>>>>),
    RObj(<<<<"toString", rPos>>>>), RObj(<<<<"0", rMany>>, <<"length", rPos>>>>),
    RObj(<<<<"a", RObj(<<<<"b", rPos>>>>)>>>>),
    RArr(<<RObj(<<<<"a", rSlow>>>>), rMany>>) }

\* The rule sets passed as several arguments to one call.
ArgPool == {rSlow, rMixed}

MultiArgs == UNION {[1..k -> ArgPool] : k \in 2..MaxArgs}

One(S) == {<<r>> : r \in S}

Nums == {Num(0), Num(1)}

Scalars == Nums \cup {Null}

Arrays == {Arr(s) : s \in UNION {[1..k -> Nums] : k \in 0..MaxLen}}

Objects ==
  {Obj(NoProps)} \cup {Obj([k \in {"a"} |-> v]) : v \in Nums}
    \cup {Obj([k \in {"a", "b"} |-> IF k = "a" THEN v ELSE w]) : v, w \in Nums}
    \cup {Obj([k \in {"$each"} |-> Num(0)]),
          Obj([k \in {"a"} |-> Obj([j \in {"b"} |-> Num(0)])])}

\* The calls made: an input and the rule sets it is validated against.
SingleConfigs ==
  (Scalars \X (One(LeafRules \cup ArrayRules)
                 \cup One({RObj(<<<<"a", rPos>>>>), RObj(<<<<"$each", rPos>>>>)})))
    \cup (Arrays \X (One(EachRules \cup {rMany})
                       \cup One({RObj(<<<<"0", rMany>>, <<"length", rPos>>>>)})))
    \cup (Objects \X One(KeyRules \cup EachRules \cup {rPos}))

\* The calls made with several rule sets.
MultiConfigs ==
  (Scalars \X MultiArgs)
    \cup ({Obj([k \in {"a"} |-> Num(0)])}
            \X {<<RObj(<<<<"a", rPos>>>>), rMany>>, <<rMixed, RObj(<<<<"a", rSlow>>>>)>>})

\* The calls made with no rule set.
EmptyConfigs == (Scalars \cup Arrays \cup Objects) \X {<<>>}

\* The calls made side by side with calls of other inputs and rule sets.
PairConfigs ==
  (Scalars \X One({rPos, rSlow, rMixed, rReject, RArr(<<rSlow, rMixed>>)}))
    \cup ({Obj([k \in {"a", "b"} |-> IF k = "a" THEN Num(0) ELSE Num(1)]),
            Obj([k \in {"a", "b"} |-> IF k = "a" THEN Num(1) ELSE Num(0)])}
            \X One({RObj(<<<<"a", rSlow>>, <<"b", rMixed>>>>)}))

\* The calls made with rules that leave work behind.
LateConfigs ==
  Scalars \X One({rLate, rLateSlow, RArr(<<rLate, rPos>>), RArr(<<rSlow, rLateSlow>>)})

Configs == EmptyConfigs \cup SingleConfigs \cup MultiConfigs

Calls == {1, 2}

\* The same rule set with every leaf rule calling the free-standing assert.
RECURSIVE ToFree(_)
ToFree(rules) ==
  CASE rules.k = "fn" -> [rules EXCEPT !.style = "free"]
    [] rules.k = "arr" ->
         [rules EXCEPT !.items = [i \in 1..Len(@) |-> ToFree(@[i])]]
    [] OTHER ->
         [rules EXCEPT !.items = [i \in 1..Len(@) |-> <<@[i][1], ToFree(@[i][2])>>]]

ToFreeArgs(args) == [i \in 1..Len(args) |-> ToFree(args[i])]

\* ------------------------------------------------------------ the state
VARIABLES
  input,     \* input[c]: the first argument of call c
  rules,     \* rules[c]: the rest arguments of call c
  cstate,    \* cstate[c]: "idle", "awaiting", "resolved" or "rejected"
  thrown,    \* thrown[c]: the error call c rejected with
  tasks,     \* tasks[c]: the applyRulesRecursively calls of call c
  st,        \* st[c][n]: the state of task n
  pc,        \* pc[c][n]: the next step of leaf n's rule
  acc,       \* acc[c][n]: the asserter's errors of leaf n
  errors,    \* errors[c]: the error sink of call c
  mq,        \* the continuations waiting to run, oldest first
  result,    \* result[c]: what call c resolved with
  invoked,   \* invoked[c]: the rule invocations of call c, in order
  flushed    \* flushed[c]: the leaves whose continuation ran, in order

vars == <<input, rules, cstate, thrown, tasks, st, pc, acc, errors, mq, result,
          invoked, flushed>>

\* Nothing has been called: call 1 will validate v1 against args1, call 2
\* will validate v2 against args2.
StartPair(v1, args1, v2, args2) ==
  /\ input = (1 :> v1) @@ (2 :> v2)
  /\ rules = (1 :> args1) @@ (2 :> args2)
  /\ cstate = [c \in Calls |-> "idle"]
  /\ thrown = [c \in Calls |-> "-"]
  /\ tasks = [c \in Calls |-> <<>>]
  /\ st = [c \in Calls |-> <<>>]
  /\ pc = [c \in Calls |-> <<>>]
  /\ acc = [c \in Calls |-> <<>>]
  /\ errors = [c \in Calls |-> <<>>]
  /\ mq = <<>>
  /\ result = [c \in Calls |-> NoResult]
  /\ invoked = [c \in Calls |-> <<>>]
  /\ flushed = [c \in Calls |-> <<>>]

\* Nothing has been called: call 1 will validate v against args1, call 2
\* against args2.
Start(v, args1, args2) == StartPair(v, args1, v, args2)

\* Two calls with the same arguments.
Init == \E cf \in Configs : Start(cf[1], cf[2], cf[2])

\* validate(x, r1, ..., rn) and validate(x, [r1, ..., rn]).
InitSpread == \E cf \in MultiConfigs : Start(cf[1], cf[2], <<RArr(cf[2])>>)

\* The same call with rules that use the assert passed to them, and with
\* rules that use the free-standing assert.
InitFree == \E cf \in Configs : Start(cf[1], cf[2], ToFreeArgs(cf[2]))

\* Two unrelated calls in flight together, as in
\* Promise.all([validate(a, r), validate(b, s)]).
InitPair ==
  \E cf1, cf2 \in PairConfigs :
    cf1 # cf2 /\ StartPair(cf1[1], cf1[2], cf2[1], cf2[2])

\* Two calls with the same arguments, whose rules leave work behind.
InitLate == \E cf \in LateConfigs : Start(cf[1], cf[2], cf[2])

\* Any call, made while a call with an asynchronous rule, one that fails or
\* one that records failures, is in flight.
InitFair ==
  \E cf \in Configs : \E other \in {<<rReject>>, <<rMixed>>} :
    StartPair(cf[1], cf[2], Num(0), other)

Leaves(ts) == {n \in 1..Len(ts) : ts[n].kind = "leaf"}

\* The leaves of ts in the order they are started.
LeafSeq(ts) == SelectSeq([n \in 1..Len(ts) |-> n], LAMBDA n : ts[n].kind = "leaf")

\* Promise.allSettled in place of Promise.all: a branch waits for all its
\* children and fulfils whatever they did.
RECURSIVE PromiseAllSettled(_, _, _)
PromiseAllSettled(ts, s, n) ==
  IF ts[n].kind = "leaf"
  THEN IF s[n] \in {"done", "rejected"} THEN "fulfilled" ELSE "pending"
  ELSE IF \A m \in {k \in 1..Len(ts) : ts[k].parent = n} :
            PromiseAllSettled(ts, s, m) = "fulfilled"
       THEN "fulfilled" ELSE "pending"

\* Promise.race in place of Promise.all: a branch settles as the first of its
\* children to settle does.
RECURSIVE PromiseRace(_, _, _)
PromiseRace(ts, s, n) ==
  IF ts[n].kind = "leaf"
  THEN CASE s[n] = "done" -> "fulfilled"
         [] s[n] = "rejected" -> "rejected"
         [] OTHER -> "pending"
  ELSE LET kids == {m \in 1..Len(ts) : ts[m].parent = n}
       IN IF \E m \in kids : PromiseRace(ts, s, m) = "rejected" THEN "rejected"
          ELSE IF kids = {} \/ \E m \in kids : PromiseRace(ts, s, m) = "fulfilled"
          THEN "fulfilled"
          ELSE "pending"

\* The state of the promise of task n: a leaf's own, Promise.all's for a branch.
RECURSIVE Promise(_, _, _)
Promise(ts, s, n) ==
  IF ts[n].kind = "leaf"
  THEN CASE s[n] = "done" -> "fulfilled"
         [] s[n] = "rejected" -> "rejected"
         [] OTHER -> "pending"
  ELSE LET kids == {m \in 1..Len(ts) : ts[m].parent = n}
       IN IF \E m \in kids : Promise(ts, s, m) = "rejected" THEN "rejected"
          ELSE IF \A m \in kids : Promise(ts, s, m) = "fulfilled" THEN "fulfilled"
          ELSE "pending"

\* if (!rules.length)
NoRules(args) == Len(args) = 0

\* The call without rules resolving with a vacuous result instead of throwing.
ResolveNoRules(c) ==
  /\ cstate' = [cstate EXCEPT ![c] = "resolved"]
  /\ result' = [result EXCEPT ![c] = MakeResult(<<>>)]
  /\ UNCHANGED <<tasks, st, pc, acc, mq, invoked, thrown>>

\* throw new Error('No rule specified')
RejectNoRules(c) ==
  /\ cstate' = [cstate EXCEPT ![c] = "rejected"]
  /\ thrown' = [thrown EXCEPT ![c] = "No rule specified"]
  /\ UNCHANGED <<tasks, st, pc, acc, mq, invoked, result>>

\* applyRulesRecursively(input, rulesSet, '$', errors) up to validate's await:
\* every rule the dispatcher selects is invoked and runs up to its first
\* suspension; the rules that returned have their continuation queued.
StartRules(c) ==
  LET ts == applyRulesRecursively(input[c], NormalizeRules(rules[c]), "$", 0, 0)
      run == [n \in 1..Len(ts) |->
                IF ts[n].kind = "leaf"
                THEN RunRule(ts[n].rules, ts[n].value, 1, <<>>)
                ELSE [pc |-> 0, errs |-> <<>>, out |-> "all"]]
      ls == LeafSeq(ts)
      ended == SelectSeq(ls, LAMBDA n : run[n].out = "end")
  IN /\ cstate' = [cstate EXCEPT ![c] = "awaiting"]
     /\ tasks' = [tasks EXCEPT ![c] = ts]
     /\ st' = [st EXCEPT ![c] =
                 [n \in 1..Len(ts) |->
                    IF ts[n].kind = "leaf" THEN LeafState(run[n]) ELSE "all"]]
     /\ pc' = [pc EXCEPT ![c] = [n \in 1..Len(ts) |-> run[n].pc]]
     /\ acc' = [acc EXCEPT ![c] = [n \in 1..Len(ts) |-> run[n].errs]]
     /\ mq' = mq \o [i \in 1..Len(ended) |-> <<c, ended[i]>>]
     /\ invoked' = [invoked EXCEPT ![c] =
                      [i \in 1..Len(ls) |->
                         [rule |-> ts[ls[i]].rules, value |-> ts[ls[i]].value,
                          path |-> ts[ls[i]].path]]]
     /\ UNCHANGED <<thrown, result>>

\* validate(input, ...rules) up to its await.
Validate(c) ==
  /\ cstate[c] = "idle"
  /\ IF NoRules(rules[c]) THEN RejectNoRules(c) ELSE StartRules(c)
  /\ UNCHANGED <<input, rules, errors, flushed>>

\* Resume with a short circuit: a suspended rule is dropped once the sink of
\* its call holds a failure.
ResumeUnlessFailed(c, n) ==
  /\ n \in DOMAIN st[c]
  /\ st[c][n] = "running"
  /\ errors[c] = <<>>
  /\ LET run == RunRule(tasks[c][n].rules, tasks[c][n].value, pc[c][n], acc[c][n])
     IN /\ st' = [st EXCEPT ![c][n] = LeafState(run)]
        /\ pc' = [pc EXCEPT ![c][n] = run.pc]
        /\ acc' = [acc EXCEPT ![c][n] = run.errs]
        /\ mq' = IF run.out = "end" THEN Append(mq, <<c, n>>) ELSE mq
  /\ UNCHANGED <<input, rules, cstate, thrown, tasks, errors, result, invoked, flushed>>

\* The work a suspended rule waits for completes: the rule runs on, up to its
\* next suspension, its return or its throw.
Resume(c, n) ==
  /\ n \in DOMAIN st[c]
  /\ st[c][n] = "running"
  /\ LET run == RunRule(tasks[c][n].rules, tasks[c][n].value, pc[c][n], acc[c][n])
     IN /\ st' = [st EXCEPT ![c][n] = LeafState(run)]
        /\ pc' = [pc EXCEPT ![c][n] = run.pc]
        /\ acc' = [acc EXCEPT ![c][n] = run.errs]
        /\ mq' = IF run.out = "end" THEN Append(mq, <<c, n>>) ELSE mq
  /\ UNCHANGED <<input, rules, cstate, thrown, tasks, errors, result, invoked, flushed>>

\* Collect with one sink for the whole module instead of one per call.
CollectShared ==
  /\ mq # <<>>
  /\ LET c == mq[1][1]
         n == mq[1][2]
     IN /\ errors' = [k \in Calls |-> PushErrors(errors[k], tasks[c][n].path, acc[c][n])]
        /\ st' = [st EXCEPT ![c][n] = "done"]
        /\ flushed' = [flushed EXCEPT ![c] = Append(@, n)]
  /\ mq' = Tail(mq)
  /\ UNCHANGED <<input, rules, cstate, thrown, tasks, pc, acc, result, invoked>>

\* applyRulesRecursively after `await isValid(input, assert)`: the rule's
\* assertion errors go to the error sink.
Collect ==
  /\ mq # <<>>
  /\ LET c == mq[1][1]
         n == mq[1][2]
     IN /\ errors' = [errors EXCEPT ![c] = PushErrors(@, tasks[c][n].path, acc[c][n])]
        /\ st' = [st EXCEPT ![c][n] = "done"]
        /\ flushed' = [flushed EXCEPT ![c] = Append(@, n)]
  /\ mq' = Tail(mq)
  /\ UNCHANGED <<input, rules, cstate, thrown, tasks, pc, acc, result, invoked>>

\* Settle without the rejection: a call whose rule failed stays pending.
SettleOnlyFulfilled(c) ==
  /\ cstate[c] = "awaiting"
  /\ Promise(tasks[c], st[c], 1) = "fulfilled"
  /\ cstate' = [cstate EXCEPT ![c] = "resolved"]
  /\ result' = [result EXCEPT ![c] = MakeResult(errors[c])]
  /\ UNCHANGED <<input, rules, thrown, tasks, st, pc, acc, errors, mq, invoked, flushed>>

\* validate after `await applyRulesRecursively(...)`: it rejects with the
\* error of a rule, or resolves with the result.
Settle(c) ==
  /\ cstate[c] = "awaiting"
  /\ Promise(tasks[c], st[c], 1) # "pending"
  /\ IF Promise(tasks[c], st[c], 1) = "rejected"
     THEN /\ cstate' = [cstate EXCEPT ![c] = "rejected"]
          /\ thrown' = [thrown EXCEPT ![c] = "rule error"]
          /\ UNCHANGED result
     ELSE /\ cstate' = [cstate EXCEPT ![c] = "resolved"]
          /\ result' = [result EXCEPT ![c] = MakeResult(errors[c])]
          /\ UNCHANGED thrown
  /\ UNCHANGED <<input, rules, tasks, st, pc, acc, errors, mq, invoked, flushed>>

\* Late with the asserter writing to the list of the path in the sink once
\* the rule's messages have been collected.
LateIntoSink(c, n) ==
  /\ n \in DOMAIN st[c]
  /\ st[c][n] \in {"settled", "done"}
  /\ pc[c][n] <= Len(tasks[c][n].rules.script)
  /\ LET s == tasks[c][n].rules.script[pc[c][n]]
         now == CallAssert(tasks[c][n].rules.style, acc[c][n],
                           Cond(s.pred, tasks[c][n].value), s.msg)
     IN /\ acc' = [acc EXCEPT ![c][n] = now]
        /\ errors' = IF st[c][n] = "done" /\ now # acc[c][n]
                     THEN [errors EXCEPT ![c] =
                             PushErrors(@, tasks[c][n].path, <<s.msg>>)]
                     ELSE errors
  /\ pc' = [pc EXCEPT ![c][n] = @ + 1]
  /\ UNCHANGED <<input, rules, cstate, thrown, tasks, st, mq, result, invoked, flushed>>

\* The work a rule left behind calls assert after the rule has returned:
\* createAsserter's assert pushes to the message array of the invocation.
Late(c, n) ==
  /\ n \in DOMAIN st[c]
  /\ st[c][n] \in {"settled", "done"}
  /\ pc[c][n] <= Len(tasks[c][n].rules.script)
  /\ LET s == tasks[c][n].rules.script[pc[c][n]]
     IN acc' = [acc EXCEPT ![c][n] =
                  CallAssert(tasks[c][n].rules.style, @,
                             Cond(s.pred, tasks[c][n].value), s.msg)]
  /\ pc' = [pc EXCEPT ![c][n] = @ + 1]
  /\ UNCHANGED <<input, rules, cstate, thrown, tasks, st, errors, mq, result,
                 invoked, flushed>>

Next ==
  \/ \E c \in Calls : Validate(c)
  \/ \E c \in Calls : \E n \in 1..Len(tasks[c]) : Resume(c, n)
  \/ Collect
  \/ \E c \in Calls : Settle(c)

Spec == Init /\ [][Next]_vars

SpecSpread == InitSpread /\ [][Next]_vars

SpecFree == InitFree /\ [][Next]_vars
SpecPair == InitPair /\ [][Next]_vars

\* The event loop runs every queued continuation, and the work a suspended
\* rule waits for completes.
Fairness ==
  /\ WF_vars(Collect)
  /\ \A c \in Calls : WF_vars(Settle(c))
  /\ \A c \in Calls : WF_vars(\E n \in 1..Len(tasks[c]) : Resume(c, n))

SpecFair == InitFair /\ [][Next]_vars /\ Fairness

\* The steps of calls whose rules leave work behind.
NextLate ==
  \/ Next
  \/ \E c \in Calls : \E n \in 1..Len(tasks[c]) : Late(c, n)

SpecLate == InitLate /\ [][NextLate]_vars

\* ------------------------------------------------------------ properties
\* The messages of the assert calls a rule makes with a falsy condition when
\* it runs to its end on value, in the order of the calls.
FalsyCalls(rule, value) ==
  LET falsy == SelectSeq(rule.script,
                         LAMBDA s : s.op = "assert" /\ ~Cond(s.pred, value))
  IN [i \in 1..Len(falsy) |-> falsy[i].msg]

\* The rule makes an assert call with a truthy condition on value.
HasTruthyCall(rule, value) ==
  \E i \in 1..Len(rule.script) :
    rule.script[i].op = "assert" /\ Cond(rule.script[i].pred, value)

\* The rule throws, or returns a promise that rejects.
Throws(rule) == \E i \in 1..Len(rule.script) : rule.script[i].op = "throw"

Paths(errs) == {errs[i][1] : i \in 1..Len(errs)}

\* The two error maps hold the same paths with the same message lists.
SameMap(e1, e2) ==
  /\ Paths(e1) = Paths(e2)
  /\ \A p \in Paths(e1) : MessagesAt(e1, p) = MessagesAt(e2, p)

Count(s, m) == Cardinality({i \in 1..Len(s) : s[i] = m})

\* The two error maps hold the same paths, each with the same messages the
\* same number of times.
SameUpToOrder(e1, e2) ==
  /\ Paths(e1) = Paths(e2)
  /\ \A p \in Paths(e1) :
       LET s == MessagesAt(e1, p)
           t == MessagesAt(e2, p)
       IN /\ Len(s) = Len(t)
          /\ \A i \in 1..Len(s) : Count(s, s[i]) = Count(t, s[i])

\* The falsy-call messages of the leaves of ts at path, leaf after leaf in
\* the given order.
RECURSIVE Contributed(_, _, _)
Contributed(ts, order, path) ==
  IF order = <<>> THEN <<>>
  ELSE (IF ts[Head(order)].path = path
        THEN FalsyCalls(ts[Head(order)].rules, ts[Head(order)].value)
        ELSE <<>>) \o Contributed(ts, Tail(order), path)

\* C1: when validate resolves, valid is true exactly when errors is null and
\* exactly when no invoked leaf rule called assert with a falsy condition;
\* when valid is false errors is non-null and no path maps to an empty list.
C1_ValidIffNoFalsyAssert ==
  \A c \in Calls :
    cstate[c] = "resolved" =>
      LET r == result[c]
          clean == \A i \in 1..Len(invoked[c]) :
                     FalsyCalls(invoked[c][i].rule, invoked[c][i].value) = <<>>
      IN /\ r.valid <=> r.null
         /\ r.valid <=> clean
         /\ ~r.valid => /\ ~r.null
                        /\ Len(r.errors) > 0
                        /\ \A i \in 1..Len(r.errors) : r.errors[i][2] # <<>>

\* A call resolved with valid false although one of its rules made no falsy
\* assert call.
C1_Witness ==
  \E c \in Calls :
    /\ cstate[c] = "resolved"
    /\ ~result[c].valid
    /\ \E i \in 1..Len(invoked[c]) :
         FalsyCalls(invoked[c][i].rule, invoked[c][i].value) = <<>>

\* C2: a leaf rule invocation at path p that makes a falsy assert call before
\* it settles puts p in the resolved errors map, and it contributes exactly
\* the messages of its falsy calls, each once, in the order of the calls;
\* truthy calls contribute nothing.  The list of p is the contributions of
\* the invocations at p, one whole invocation after the other.
C2_FalsyCallsRecordedInOrder ==
  \A c \in Calls :
    cstate[c] = "resolved" =>
      /\ \A i \in 1..Len(invoked[c]) :
           FalsyCalls(invoked[c][i].rule, invoked[c][i].value) # <<>>
             => HasPath(result[c].errors, invoked[c][i].path)
      /\ \A n \in Leaves(tasks[c]) :
           MessagesAt(result[c].errors, tasks[c][n].path)
             = Contributed(tasks[c], flushed[c], tasks[c][n].path)

\* A call resolved after a rule made two falsy assert calls and a truthy one.
C2_Witness ==
  \E c \in Calls :
    /\ cstate[c] = "resolved"
    /\ \E i \in 1..Len(invoked[c]) :
         /\ Len(FalsyCalls(invoked[c][i].rule, invoked[c][i].value)) > 1
         /\ HasTruthyCall(invoked[c][i].rule, invoked[c][i].value)

\* C3: if an invoked leaf rule throws or returns a rejected promise, validate
\* never resolves with a result, whatever the other rules do; once a rule has
\* failed the call has rejected or is about to.
C3_RuleFailureRejects ==
  \A c \in Calls :
    /\ (\E i \in 1..Len(invoked[c]) : Throws(invoked[c][i].rule))
         => cstate[c] # "resolved" /\ result[c] = NoResult
    /\ (\E n \in Leaves(tasks[c]) : st[c][n] = "rejected")
         => \/ cstate[c] = "rejected" /\ thrown[c] = "rule error"
            \/ cstate[c] = "awaiting" /\ Promise(tasks[c], st[c], 1) = "rejected"

\* A call rejected by a rule while another rule of the call, which recorded
\* an assertion error, is still running.
C3_Witness ==
  \E c \in Calls :
    /\ cstate[c] = "rejected"
    /\ thrown[c] = "rule error"
    /\ \E n \in Leaves(tasks[c]) : st[c][n] = "running" /\ acc[c][n] # <<>>

\* C4: validate called with no rule set rejects with 'No rule specified', for
\* every input, invoking no rule and producing no result.
C4_NoRulesRejects ==
  \A c \in Calls :
    (Len(rules[c]) = 0 /\ cstate[c] # "idle") =>
      /\ cstate[c] = "rejected"
      /\ thrown[c] = "No rule specified"
      /\ invoked[c] = <<>>
      /\ tasks[c] = <<>>
      /\ result[c] = NoResult

\* validate([]) has rejected.
C4_Witness ==
  \E c \in Calls :
    /\ input[c] = Arr(<<>>)
    /\ Len(rules[c]) = 0
    /\ cstate[c] = "rejected"

\* C5: validate(x, r1, ..., rn) with n >= 2 (call 1) and validate(x, [r1, ..., rn])
\* (call 2) invoke the same leaf rules on the same values at the same paths,
\* settle the same way, and resolve with equal results: always the same valid
\* flag and the same paths with the same messages, and the same message lists
\* when the rules complete in the same order in both calls.
C5_SpreadEqualsArray ==
  /\ Len(rules[1]) > 1 /\ rules[2] = <<RArr(rules[1])>>
  /\ (cstate[1] # "idle" /\ cstate[2] # "idle") => invoked[1] = invoked[2]
  /\ (cstate[1] \in {"resolved", "rejected"} /\ cstate[2] \in {"resolved", "rejected"})
       => /\ cstate[1] = cstate[2]
          /\ thrown[1] = thrown[2]
          /\ result[1].valid = result[2].valid
          /\ result[1].null = result[2].null
          /\ SameUpToOrder(result[1].errors, result[2].errors)
          /\ flushed[1] = flushed[2] => result[1] = result[2]

\* Both forms resolved with valid false after their two or more rules
\* completed in the same order.
C5_Witness ==
  /\ cstate[1] = "resolved" /\ cstate[2] = "resolved"
  /\ Len(rules[1]) > 1 /\ Len(rules[2]) = 1
  /\ ~result[1].valid
  /\ Len(invoked[1]) > 1
  /\ flushed[1] = flushed[2]

\* The paths of the elements of an array validated at the root.
ElementPaths == <<"$.0", "$.1", "$.2", "$.3", "$.4", "$.5", "$.6", "$.7">>

\* Call c validates an array against a rule set {$each: r} with r a leaf rule.
EachCall(c) ==
  /\ input[c].t = "arr"
  /\ Len(rules[c]) = 1
  /\ rules[c][1].k = "obj"
  /\ HasEach(rules[c][1])
  /\ EachOf(rules[c][1]).k = "fn"

\* C6: with an input sequence of length N and a rule set {$each: r}, r a leaf
\* rule, r is invoked exactly once per element i in 0..N-1, with that element,
\* and the resolved errors map holds the path '$.i' exactly for the indices i
\* whose element fails r.
C6_EachDistributes ==
  \A c \in Calls :
    (EachCall(c) /\ cstate[c] # "idle") =>
      LET r == EachOf(rules[c][1])
          elems == input[c].f
      IN /\ invoked[c] = [i \in 1..Len(elems) |->
                            [rule |-> r, value |-> elems[i], path |-> ElementPaths[i]]]
         /\ cstate[c] = "resolved" =>
              Paths(result[c].errors)
                = {ElementPaths[i] : i \in {j \in 1..Len(elems) : FalsyCalls(r, elems[j]) # <<>>}}

\* A $each call over the longest array resolved with some but not all of the
\* element paths.
C6_Witness ==
  \E c \in Calls :
    /\ EachCall(c)
    /\ cstate[c] = "resolved"
    /\ Len(input[c].f) = MaxLen
    /\ Len(result[c].errors) > 0
    /\ Len(result[c].errors) < MaxLen

IndexKeys == <<"0", "1", "2", "3", "4", "5", "6", "7">>

\* The keys present in a keyed input (the in operator): the keys of an
\* object, the indices and the length of an array, and the inherited toString.
PresentKeys(v) ==
  (IF v.t = "obj" THEN DOMAIN v.f
   ELSE {IndexKeys[i] : i \in 1..Len(v.f)} \cup {"length"}) \cup {"toString"}

\* The keys of a keyed input that can hold data.
DataKeys(v) ==
  IF v.t = "obj" THEN DOMAIN v.f ELSE {IndexKeys[i] : i \in 1..Len(v.f)}

\* Call c applies an object rule set to a keyed input.
ObjectCall(c) ==
  /\ input[c].t \in {"obj", "arr"}
  /\ Len(rules[c]) = 1
  /\ rules[c][1].k = "obj"
  /\ ~(input[c].t = "arr" /\ HasEach(rules[c][1]))

\* C7: an object rule set applied to a keyed input descends into exactly the
\* keys present in both, in the order of the rule set, each with the input's
\* value of the key at path + '.' + key; a rule key absent from the input
\* starts no task, invokes no rule and records no error, and an input key
\* absent from the rule set is passed to no rule and is no path of errors.
C7_OnlySharedKeysDescended ==
  \A c \in Calls :
    (ObjectCall(c) /\ cstate[c] # "idle") =>
      LET ts == tasks[c]
          pairs == rules[c][1].items
          ruleKeys == {pairs[i][1] : i \in 1..Len(pairs)}
          shared == SelectSeq(pairs, LAMBDA p : p[1] \in PresentKeys(input[c]))
          kids == SelectSeq([n \in 1..Len(ts) |-> n], LAMBDA n : ts[n].parent = 1)
      IN /\ Len(kids) = Len(shared)
         /\ \A i \in 1..Len(kids) :
              /\ ts[kids[i]].path = "$." \o shared[i][1]
              /\ ts[kids[i]].rules = shared[i][2]
              /\ shared[i][1] \in DataKeys(input[c]) /\ input[c].t = "obj"
                   => ts[kids[i]].value = input[c].f[shared[i][1]]
         /\ \A k \in (ruleKeys \ PresentKeys(input[c])) \cup (DataKeys(input[c]) \ ruleKeys) :
              /\ \A n \in 1..Len(ts) : ts[n].path # "$." \o k
              /\ \A i \in 1..Len(invoked[c]) : invoked[c][i].path # "$." \o k
              /\ ~HasPath(errors[c], "$." \o k)
              /\ ~HasPath(result[c].errors, "$." \o k)

\* An object rule set resolved with an error at a shared key, with a rule key
\* the input lacks and an input key the rule set lacks.
C7_Witness ==
  \E c \in Calls :
    /\ ObjectCall(c)
    /\ input[c].t = "obj"
    /\ cstate[c] = "resolved"
    /\ \E i \in 1..Len(rules[c][1].items) :
         rules[c][1].items[i][1] \notin PresentKeys(input[c])
    /\ \E k \in DOMAIN input[c].f :
         \A i \in 1..Len(rules[c][1].items) : rules[c][1].items[i][1] # k
    /\ Len(result[c].errors) > 0

\* The {path, message} entries of an error map, path after path in the order
\* the paths were first populated, in message order within a path.
RECURSIVE Flatten(_)
Flatten(errs) ==
  IF errs = <<>> THEN <<>>
  ELSE [i \in 1..Len(errs[1][2]) |-> [path |-> errs[1][1], message |-> errs[1][2][i]]]
         \o Flatten(Tail(errs))

\* C8: whenever validate resolves with valid false, errors.all is the sequence
\* of the {path, message} entries of the path-to-messages map, each once,
\* ordered by first population of the path and by message order within it.
C8_ErrorsAllFlattens ==
  \A c \in Calls :
    (cstate[c] = "resolved" /\ ~result[c].valid) =>
      /\ ErrorsAll(result[c].errors).defined
      /\ ErrorsAll(result[c].errors).value = Flatten(result[c].errors)

C10_EqualForEveryInterleaving ==
  (cstate[1] = "resolved" /\ cstate[2] = "resolved") =>
    /\ result[1].valid = result[2].valid
    /\ SameMap(result[1].errors, result[2].errors)

\* C10, amended: two calls with the same input and rule sets settle the same
\* way, with the same valid flag and the same paths holding the same
\* messages; the message lists are equal when the rules complete in the same
\* order in both calls.
C10_EqualUpToCompletionOrder ==
  (cstate[1] \in {"resolved", "rejected"} /\ cstate[2] \in {"resolved", "rejected"}) =>
    /\ cstate[1] = cstate[2]
    /\ thrown[1] = thrown[2]
    /\ result[1].valid = result[2].valid
    /\ result[1].null = result[2].null
    /\ SameUpToOrder(result[1].errors, result[2].errors)
    /\ flushed[1] = flushed[2] => SameMap(result[1].errors, result[2].errors)

\* Two calls with the same arguments resolved after their rules completed in
\* different orders, with differently ordered message lists.
C10_Witness ==
  /\ rules[1] = rules[2] /\ input[1] = input[2]
  /\ cstate[1] = "resolved" /\ cstate[2] = "resolved"
  /\ flushed[1] # flushed[2]
  /\ ~SameMap(result[1].errors, result[2].errors)

\* The leaf rules an array of rule sets lists for its own path, nested arrays
\* included, in the order of the listing.
RECURSIVE ListedLeaves(_)
RECURSIVE ListedIn(_)
ListedLeaves(rs) ==
  IF rs.k = "fn" THEN <<rs>>
  ELSE IF rs.k = "arr" THEN ListedIn(rs.items)
  ELSE <<>>

ListedIn(items) ==
  IF items = <<>> THEN <<>>
  ELSE ListedLeaves(Head(items)) \o ListedIn(Tail(items))

\* The rule does all its work before it returns: it never awaits or throws.
Synchronous(rule) ==
  \A i \in 1..Len(rule.script) : rule.script[i].op = "assert"

\* The falsy-call messages of the listed rules on value, rule after rule.
RECURSIVE ListedMessages(_, _)
ListedMessages(listed, value) ==
  IF listed = <<>> THEN <<>>
  ELSE FalsyCalls(Head(listed), value) \o ListedMessages(Tail(listed), value)

IsPrefix(s, t) == Len(s) <= Len(t) /\ \A i \in 1..Len(s) : s[i] = t[i]

\* The call was given an array of rule sets that lists at least two leaf
\* rules for the root path, all of them synchronous.
SyncArrayCall(c) ==
  /\ cstate[c] # "idle"
  /\ Len(rules[c]) > 0
  /\ NormalizeRules(rules[c]).k = "arr"
  /\ LET listed == ListedLeaves(NormalizeRules(rules[c]))
     IN /\ Len(listed) > 1
        /\ \A i \in 1..Len(listed) : Synchronous(listed[i])

\* C11: when an array of rule sets applies several leaf rules that do no
\* asynchronous work to one path, the messages at that path are those of the
\* rules in the order the rules are listed: the list of the path grows as a
\* prefix of the listing-order messages and equals them when validate
\* resolves.
C11_SyncRulesInListingOrder ==
  \A c \in Calls :
    SyncArrayCall(c) =>
      LET expected == ListedMessages(ListedLeaves(NormalizeRules(rules[c])),
                                     input[c])
      IN /\ IsPrefix(MessagesAt(errors[c], "$"), expected)
         /\ cstate[c] = "resolved"
              => MessagesAt(result[c].errors, "$") = expected

\* A call resolved with the messages of two different synchronous rules of
\* one array in the list of the root path.
C11_Witness ==
  \E c \in Calls :
    /\ SyncArrayCall(c)
    /\ cstate[c] = "resolved"
    /\ LET listed == ListedLeaves(NormalizeRules(rules[c]))
       IN \E i, j \in 1..Len(listed) :
            /\ i < j
            /\ FalsyCalls(listed[i], input[c]) # <<>>
            /\ FalsyCalls(listed[j], input[c]) # <<>>
            /\ FalsyCalls(listed[i], input[c]) # FalsyCalls(listed[j], input[c])
    /\ Len(MessagesAt(result[c].errors, "$")) > 2

\* C12: in every reachable state the list of every path in a call's sink is
\* the messages of the rule invocations collected so far at that path, each
\* invocation's messages as one contiguous block, block after block in the
\* order the invocations were collected; and no step removes or reorders what
\* a list already holds: every path stays, and its old list is a prefix of
\* its new one.
C12_BlocksContiguousAppendOnly ==
  /\ [](\A c \in Calls :
          /\ \A n \in Leaves(tasks[c]) :
               MessagesAt(errors[c], tasks[c][n].path)
                 = Contributed(tasks[c], flushed[c], tasks[c][n].path)
          /\ Paths(errors[c]) \subseteq {tasks[c][n].path : n \in Leaves(tasks[c])})
  /\ [][\A c \in Calls :
          \A i \in 1..Len(errors[c]) :
            /\ Len(errors'[c]) >= i
            /\ errors'[c][i][1] = errors[c][i][1]
            /\ IsPrefix(errors[c][i][2], errors'[c][i][2])]_vars

\* Two rule invocations at one path were collected in the opposite order of
\* their start, the first with two messages, the second with one, and the
\* list of the path holds the three messages.
C12_Witness ==
  \E c \in Calls :
    \E i, j \in 1..Len(flushed[c]) :
      /\ i < j
      /\ flushed[c][i] > flushed[c][j]
      /\ tasks[c][flushed[c][i]].path = tasks[c][flushed[c][j]].path
      /\ Len(acc[c][flushed[c][i]]) > 1
      /\ Len(acc[c][flushed[c][j]]) > 0
      /\ MessagesAt(errors[c], tasks[c][flushed[c][i]].path)
           = acc[c][flushed[c][i]] \o acc[c][flushed[c][j]]

\* Task m is n or was started below n.
RECURSIVE IsUnder(_, _, _)
IsUnder(ts, m, n) ==
  IF m = n THEN TRUE
  ELSE IF m < 1 \/ ts[m].parent < 1 THEN FALSE
  ELSE IsUnder(ts, ts[m].parent, n)

LeavesUnder(ts, n) == {m \in Leaves(ts) : IsUnder(ts, m, n)}

\* C13 as stated: a branching node completes only once every child task has
\* completed, and validate never settles while a leaf rule it started is
\* still running.
C13_NeverSettlesWhileLeafRuns ==
  \A c \in Calls :
    /\ \A n \in 1..Len(tasks[c]) :
         Promise(tasks[c], st[c], n) # "pending"
           => \A m \in LeavesUnder(tasks[c], n) : st[c][m] \in {"done", "rejected"}
    /\ cstate[c] \in {"resolved", "rejected"}
         => \A m \in Leaves(tasks[c]) : st[c][m] \in {"done", "rejected"}

\* C13: a branching node fulfils only once every leaf below it has completed
\* and been collected, and validate never resolves while a leaf rule it
\* started is still running; a branching node rejects as soon as one leaf
\* below it has failed, so validate rejects with the rule's error only after
\* a leaf failed, whether or not the other leaves have completed.
C13_FulfilsAfterAllChildren ==
  \A c \in Calls :
    /\ \A n \in 1..Len(tasks[c]) :
         /\ Promise(tasks[c], st[c], n) = "fulfilled"
              <=> \A m \in LeavesUnder(tasks[c], n) : st[c][m] = "done"
         /\ Promise(tasks[c], st[c], n) = "rejected"
              <=> \E m \in LeavesUnder(tasks[c], n) : st[c][m] = "rejected"
    /\ cstate[c] = "resolved"
         => \A m \in Leaves(tasks[c]) : st[c][m] = "done"
    /\ (cstate[c] = "rejected" /\ thrown[c] = "rule error")
         => \E m \in Leaves(tasks[c]) : st[c][m] = "rejected"

\* A call resolved after two leaves under one branching node completed, one
\* of them after an await and later than the leaf started after it.
C13_Witness ==
  \E c \in Calls :
    /\ cstate[c] = "resolved"
    /\ \E i, j \in 1..Len(flushed[c]) :
         /\ i < j
         /\ flushed[c][i] > flushed[c][j]
         /\ tasks[c][flushed[c][i]].parent = tasks[c][flushed[c][j]].parent
         /\ ~Synchronous(tasks[c][flushed[c][j]].rules)

\* The rule invocations the dispatch rules select for rule set rs on value v
\* at path: the rule itself for a leaf rule; those of every item for an array
\* of rule sets; those of $each on every element for a sequence under a rule
\* set with $each; those of every rule key present in a keyed value for an
\* object rule set; none otherwise.  In the order of the listing.
RECURSIVE Selected(_, _, _)
RECURSIVE SelectedItems(_, _, _)
RECURSIVE SelectedElements(_, _, _, _)
RECURSIVE SelectedKeys(_, _, _)
Selected(v, rs, path) ==
  IF rs.k = "fn" THEN <<[rule |-> rs, value |-> v, path |-> path]>>
  ELSE IF rs.k = "arr" THEN SelectedItems(v, rs.items, path)
  ELSE IF v.t = "arr" /\ HasEach(rs) THEN SelectedElements(v.f, EachOf(rs), path, 1)
  ELSE IF v.t \in {"arr", "obj"} THEN SelectedKeys(v, rs.items, path)
  ELSE <<>>

SelectedItems(v, items, path) ==
  IF items = <<>> THEN <<>>
  ELSE Selected(v, Head(items), path) \o SelectedItems(v, Tail(items), path)

SelectedElements(elems, rs, path, i) ==
  IF i > Len(elems) THEN <<>>
  ELSE Selected(elems[i], rs, path \o "." \o IndexKeys[i])
         \o SelectedElements(elems, rs, path, i + 1)

SelectedKeys(v, pairs, path) ==
  IF pairs = <<>> THEN <<>>
  ELSE (IF Head(pairs)[1] \in PresentKeys(v)
        THEN Selected(Get(v, Head(pairs)[1]), Head(pairs)[2],
                      path \o "." \o Head(pairs)[1])
        ELSE <<>>) \o SelectedKeys(v, Tail(pairs), path)

\* The rule invocations selected for call c.
SelectedFor(c) == Selected(input[c], NormalizeRules(rules[c]), "$")

\* The rule throws before it first awaits.
ThrowsSynchronously(rule) ==
  \E i \in 1..Len(rule.script) :
    /\ rule.script[i].op = "throw"
    /\ \A j \in 1..(i - 1) : rule.script[j].op = "assert"

\* C14: all child tasks of a branching node are launched before any of them
\* is awaited: in every state in which a continuation of a rule of the call
\* may have run, that is from the moment validate suspends, every leaf rule
\* selected by dispatch has been invoked, in the order of the listing, and
\* has run up to its first suspension, also when a rule listed earlier threw
\* synchronously.
C14_AllLaunchedBeforeAnyAwaited ==
  \A c \in Calls :
    (cstate[c] # "idle" /\ Len(rules[c]) > 0) =>
      /\ invoked[c] = SelectedFor(c)
      /\ Len(LeafSeq(tasks[c])) = Len(invoked[c])
      /\ \A n \in Leaves(tasks[c]) :
           /\ st[c][n] \in {"running", "settled", "done", "rejected"}
           /\ pc[c][n] > 1 \/ tasks[c][n].rules.script = <<>>
                \/ ThrowsSynchronously(tasks[c][n].rules)

\* A rule listed after a rule that threw synchronously was invoked, resumed
\* after its await and collected.
C14_Witness ==
  \E c \in Calls :
    \E n, k \in Leaves(tasks[c]) :
      /\ n < k
      /\ tasks[c][n].parent = tasks[c][k].parent
      /\ ThrowsSynchronously(tasks[c][n].rules)
      /\ st[c][n] = "rejected"
      /\ ~Synchronous(tasks[c][k].rules)
      /\ st[c][k] = "done"

\* C15: once validate is invoked with at least one rule set, every leaf rule
\* selected by dispatch is invoked exactly once, and nothing stops it from
\* running to completion, whatever failures the sink already holds and
\* whether or not the call has settled: a suspended rule can always resume,
\* and a rule that returned has its continuation queued, so a rule stops
\* taking steps only when it has completed or thrown.
C15_NoShortCircuit ==
  \A c \in Calls :
    (cstate[c] # "idle" /\ Len(rules[c]) > 0) =>
      /\ Len(invoked[c]) = Len(SelectedFor(c))
      /\ \A i \in 1..Len(invoked[c]) : invoked[c][i] = SelectedFor(c)[i]
      /\ \A i \in 1..Len(invoked[c]) :
           LET n == LeafSeq(tasks[c])[i]
           IN /\ tasks[c][n].rules = invoked[c][i].rule
              /\ st[c][n] \in {"running", "settled", "done", "rejected"}
              /\ st[c][n] = "running" => ENABLED Resume(c, n)
              /\ st[c][n] = "settled" =>
                   Cardinality({k \in 1..Len(mq) : mq[k] = <<c, n>>}) = 1

\* A rule that awaited ran to completion and was collected when the sink
\* already held the failures of another rule of the call.
C15_Witness ==
  \E c \in Calls :
    /\ Len(flushed[c]) > 1
    /\ LET n == flushed[c][Len(flushed[c])]
           k == flushed[c][1]
       IN /\ ~Synchronous(tasks[c][n].rules)
          /\ st[c][n] = "done"
          /\ FalsyCalls(tasks[c][k].rules, tasks[c][k].value) # <<>>

\* Call c applies one object rule set.
ObjectRulesCall(c) ==
  /\ cstate[c] # "idle"
  /\ Len(rules[c]) = 1
  /\ rules[c][1].k = "obj"

\* The call did nothing: it started no task but its own, invoked no rule and
\* recorded no error, and it resolves as valid.
NoOp(c) ==
  /\ Len(tasks[c]) = 1
  /\ invoked[c] = <<>>
  /\ errors[c] = <<>>
  /\ cstate[c] # "rejected"
  /\ cstate[c] = "resolved" => result[c].valid

\* C16 as stated: a rule set carrying $each applied to any input that is not
\* a sequence, an object with a field named $each included, and an object
\* rule set applied to a primitive or null, invoke no rule and record no
\* error.
C16_NoMatchIsNoOp ==
  \A c \in Calls :
    ObjectRulesCall(c) =>
      /\ (HasEach(rules[c][1]) /\ input[c].t # "arr") => NoOp(c)
      /\ input[c].t \notin {"arr", "obj"} => NoOp(c)

\* C16: an object rule set, with or without $each, applied to a primitive or
\* null is a no-op; a rule set carrying $each applied to an object is applied
\* as an object rule set, $each being a key like the others: it is a no-op
\* when the object has none of the rule set's keys, and otherwise the rule
\* sets of the keys the object has, $each included, are applied to the
\* object's values of those keys.
C16_NoOpWhenNothingMatches ==
  \A c \in Calls :
    ObjectRulesCall(c) =>
      /\ input[c].t \notin {"arr", "obj"} => NoOp(c)
      /\ (/\ input[c].t \in {"arr", "obj"}
          /\ ~(input[c].t = "arr" /\ HasEach(rules[c][1]))
          /\ \A i \in 1..Len(rules[c][1].items) :
               rules[c][1].items[i][1] \notin PresentKeys(input[c]))
           => NoOp(c)
      /\ (HasEach(rules[c][1]) /\ input[c].t = "obj")
           => invoked[c] = SelectedKeys(input[c], rules[c][1].items, "$")

\* A rule set carrying $each was applied to an object that has none of its
\* keys, and the call resolved.
C16_Witness ==
  \E c \in Calls :
    /\ ObjectRulesCall(c)
    /\ HasEach(rules[c][1])
    /\ input[c].t = "obj"
    /\ DOMAIN input[c].f # {}
    /\ \A i \in 1..Len(rules[c][1].items) :
         rules[c][1].items[i][1] \notin PresentKeys(input[c])
    /\ cstate[c] = "resolved"

\* C17: an object rule set descends only into keys the input owns: a rule key
\* the input does not own, such as one it merely inherits from its prototype,
\* starts no task, invokes no rule and puts no path in the sink.
C17_OnlyOwnKeysDescended ==
  \A c \in Calls :
    (ObjectRulesCall(c) /\ input[c].t = "obj") =>
      \A i \in 1..Len(rules[c][1].items) :
        LET key == rules[c][1].items[i][1]
        IN key \notin DOMAIN input[c].f =>
             /\ \A n \in 1..Len(tasks[c]) : tasks[c][n].path # "$." \o key
             /\ \A k \in 1..Len(invoked[c]) : invoked[c][k].path # "$." \o key
             /\ ~HasPath(errors[c], "$." \o key)

\* The paths at which the leaves of ts collected so far recorded a failure.
FailedPaths(ts, order) ==
  {ts[order[i]].path : i \in {k \in 1..Len(order) :
                                FalsyCalls(ts[order[k]].rules, ts[order[k]].value) # <<>>}}

\* C18: validate calls in flight together share no state: in every state the
\* sink of a call holds only the messages of the call's own rule invocations,
\* and the call settles as it does run alone: it rejects only if one of its
\* own rules fails, and it resolves with the result given by its own input,
\* its own rules and the order in which its own rules completed, whatever
\* the other call does.
C18_CallsShareNoState ==
  \A c \in Calls :
    /\ Paths(errors[c]) = FailedPaths(tasks[c], flushed[c])
    /\ \A p \in Paths(errors[c]) :
         MessagesAt(errors[c], p) = Contributed(tasks[c], flushed[c], p)
    /\ cstate[c] = "rejected" =>
         \E i \in 1..Len(invoked[c]) : Throws(invoked[c][i].rule)
    /\ cstate[c] = "resolved" =>
         /\ invoked[c] = SelectedFor(c)
         /\ Paths(result[c].errors) = FailedPaths(tasks[c], LeafSeq(tasks[c]))
         /\ \A p \in Paths(result[c].errors) :
              MessagesAt(result[c].errors, p) = Contributed(tasks[c], flushed[c], p)
         /\ result[c].valid <=>
              \A i \in 1..Len(invoked[c]) :
                FalsyCalls(invoked[c][i].rule, invoked[c][i].value) = <<>>

\* Call 1 resolved with failures while call 2, made with another input, was
\* still awaiting its rules with other failures in its sink.
C18_Witness ==
  /\ cstate[1] = "resolved"
  /\ ~result[1].valid
  /\ cstate[2] = "awaiting"
  /\ input[1] # input[2]
  /\ errors[2] # <<>>
  /\ errors[2] # errors[1]

\* The position of the step at which the rule leaves work behind, 0 if none.
DetachAt(rule) ==
  IF \E i \in 1..Len(rule.script) : rule.script[i].op = "detach"
  THEN CHOOSE i \in 1..Len(rule.script) : rule.script[i].op = "detach"
  ELSE 0

\* The messages of the assert calls the rule makes, with a falsy condition on
\* value, from the work it left behind.
LateMessages(rule, value) ==
  {rule.script[i].msg : i \in {k \in 1..Len(rule.script) :
     /\ DetachAt(rule) > 0
     /\ k > DetachAt(rule)
     /\ ~Cond(rule.script[k].pred, value)}}

Range(s) == {s[i] : i \in 1..Len(s)}

\* C19 as stated: the message of an assert call a rule makes after its
\* invocation has settled is never recorded at any path of the sink or of
\* the result, and the call does not make validate reject.
C19_LateAssertNeverRecorded ==
  \A c \in Calls :
    \A n \in Leaves(tasks[c]) :
      LET late == LateMessages(tasks[c][n].rules, tasks[c][n].value)
      IN /\ \A i \in 1..Len(errors[c]) : Range(errors[c][i][2]) \cap late = {}
         /\ \A i \in 1..Len(result[c].errors) :
              Range(result[c].errors[i][2]) \cap late = {}
         /\ late # {} => cstate[c] # "rejected"

\* C19: an assert call a rule makes after the continuation of its invocation
\* has collected its messages changes neither the sink nor the result nor the
\* way validate settles; an assert call it makes after the rule has returned
\* but before that continuation runs is collected with the rule's other
\* messages: the continuation appends to the list of the path everything the
\* invocation has recorded by then.  No such call throws.
C19_LateAssertAfterCollection ==
  [][\A c \in Calls :
       \A n \in Leaves(tasks[c]) :
         /\ (st[c][n] \in {"settled", "done"} /\ acc'[c][n] # acc[c][n])
              => /\ st'[c] = st[c]
                 /\ cstate' = cstate
                 /\ thrown' = thrown
                 /\ result' = result
         /\ (st[c][n] = "done" /\ acc'[c][n] # acc[c][n])
              => errors' = errors
         /\ (st[c][n] = "settled" /\ st'[c][n] = "done")
              => MessagesAt(errors'[c], tasks[c][n].path)
                   = MessagesAt(errors[c], tasks[c][n].path) \o acc[c][n]]_vars

\* A rule recorded a message from the work it left behind after its other
\* messages had been collected, and the call resolved without that message.
C19_Witness ==
  \E c \in Calls :
    /\ cstate[c] = "resolved"
    /\ \E n \in Leaves(tasks[c]) :
         LET late == LateMessages(tasks[c][n].rules, tasks[c][n].value)
         IN /\ late # {}
            /\ st[c][n] = "done"
            /\ Range(acc[c][n]) \cap late # {}
            /\ Range(MessagesAt(errors[c], tasks[c][n].path)) \cap late = {}
            /\ Range(MessagesAt(result[c].errors, tasks[c][n].path)) \cap late = {}

Settled(c) == cstate[c] \in {"resolved", "rejected"}

\* C20: when the work every suspended rule waits for completes, a validate
\* call that has been made settles, and it settles once: it resolves with one
\* result or rejects with one error, never both, and what it settled with
\* never changes afterwards.
C20_SettlesExactlyOnce ==
  /\ \A c \in Calls : (cstate[c] # "idle") ~> Settled(c)
  /\ [](\A c \in Calls :
          /\ cstate[c] = "resolved" => result[c] # NoResult /\ thrown[c] = "-"
          /\ cstate[c] = "rejected" => result[c] = NoResult /\ thrown[c] # "-"
          /\ ~Settled(c) => result[c] = NoResult /\ thrown[c] = "-")
  /\ [][\A c \in Calls :
          Settled(c) => /\ cstate'[c] = cstate[c]
                        /\ result'[c] = result[c]
                        /\ thrown'[c] = thrown[c]]_vars

\* Both calls have settled, one of them by rejecting, after rules that
\* awaited, and every rule has finished.
C20_Witness ==
  /\ \A c \in Calls : Settled(c)
  /\ \E c \in Calls : cstate[c] = "rejected" /\ thrown[c] = "rule error"
  /\ \E c \in Calls : \E n \in Leaves(tasks[c]) : ~Synchronous(tasks[c][n].rules)
  /\ \A c \in Calls : \A n \in Leaves(tasks[c]) : st[c][n] \in {"done", "rejected"}
  /\ mq = <<>>

====
